---- MODULE Spec2Model ----
(***************************************************************************)
(* Model of langchain_opendataloader_pdf.document_loaders:                 *)
(* OpenDataLoaderPDFLoader (constructor, lazy_load generator, the          *)
(* page-boundary splitter and the JSON page-grouper).                      *)
(*                                                                         *)
(* Text is modelled as a sequence of tokens.  A token is one character     *)
(* ("a", " ", "\n", a digit) or one of the literal character runs of the   *)
(* page-break template ("<<<ODL_PAGE_BREAK_", ">>>", "%page-number%").     *)
(***************************************************************************)
EXTENDS Integers, Sequences, FiniteSets, TLC

VARIABLES
    args,        \* arguments of the constructor call
    self,        \* the loader object (NoLoader before / without construction)
    pc,          \* position of the constructor / of the lazy_load generator
    converter,   \* behaviour of the external opendataloader_pdf.convert
    tmpdirs,     \* file system: scratch directory id -> set of files in it
    locals,      \* local variables of the running lazy_load generator
    events,      \* history: external effects of lazy_load, in order
    raised,      \* exception that reached the caller (None if none)
    probe,       \* direct call of a helper method (as the unit tests do)
    probeResult  \* what that call returned

vars == <<args, self, pc, converter, tmpdirs, locals, events, raised,
          probe, probeResult>>

loaderVars == <<args, self, pc, converter, tmpdirs, locals, events, raised>>

\* Python's None.  Optional values are wrapped so that None and a value can
\* be compared: [str |-> "x"] a string, [list |-> <<..>>] a list of strings,
\* [toks |-> <<..>>] a text given as tokens.
None == [none |-> TRUE]
NoError == "NoError"

(***************************************************************************)
(* Tokens                                                                  *)
(***************************************************************************)
NL == "\n"
SP == " "
OPEN == "<<<ODL_PAGE_BREAK_"
CLOSE == ">>>"
PLACEHOLDER == "%page-number%"

Digits == {"0", "1", "2", "3", "4", "5", "6", "7", "8", "9"}

DigitVal(d) ==
    CASE d = "0" -> 0 [] d = "1" -> 1 [] d = "2" -> 2 [] d = "3" -> 3
      [] d = "4" -> 4 [] d = "5" -> 5 [] d = "6" -> 6 [] d = "7" -> 7
      [] d = "8" -> 8 [] d = "9" -> 9

\* str.strip() with no argument removes leading and trailing whitespace
Whitespace == {SP, NL, "\t", "\r"}

\* int(): base-10 value of a run of digits
RECURSIVE IntOf(_)
IntOf(ds) ==
    IF ds = <<>> THEN 0
    ELSE 10 * IntOf(SubSeq(ds, 1, Len(ds) - 1)) + DigitVal(ds[Len(ds)])

RECURSIVE LStrip(_)
LStrip(s) ==
    IF s # <<>> /\ s[1] \in Whitespace THEN LStrip(Tail(s)) ELSE s

RECURSIVE RStrip(_)
RStrip(s) ==
    IF s # <<>> /\ s[Len(s)] \in Whitespace
    THEN RStrip(SubSeq(s, 1, Len(s) - 1))
    ELSE s

Strip(s) == RStrip(LStrip(s))

\* "\n".join(texts)
RECURSIVE JoinNL(_)
JoinNL(texts) ==
    IF texts = <<>> THEN <<>>
    ELSE IF Len(texts) = 1 THEN texts[1]
    ELSE texts[1] \o <<NL>> \o JoinNL(Tail(texts))

\* filter(None, texts): drops the empty strings
RECURSIVE FilterNone(_)
FilterNone(texts) ==
    IF texts = <<>> THEN <<>>
    ELSE IF texts[1] = <<>> THEN FilterNone(Tail(texts))
    ELSE <<texts[1]>> \o FilterNone(Tail(texts))

(***************************************************************************)
(* The page-break template and the regular expression built from it        *)
(***************************************************************************)
PAGE_SPLIT_SEPARATOR == <<NL, OPEN, PLACEHOLDER, CLOSE, NL>>

\* re.escape(template).replace(re.escape("%page-number%"), r"(\d+)"):
\* every token of the template matches itself literally, the placeholder
\* becomes the capturing group (\d+).
separator_pattern ==
    [k \in 1..Len(PAGE_SPLIT_SEPARATOR) |->
        IF PAGE_SPLIT_SEPARATOR[k] = PLACEHOLDER
        THEN [kind |-> "digits", tok |-> ""]
        ELSE [kind |-> "lit", tok |-> PAGE_SPLIT_SEPARATOR[k]]]

\* number of consecutive digit tokens of s starting at position i
RECURSIVE DigitRun(_, _)
DigitRun(s, i) ==
    IF i <= Len(s) /\ s[i] \in Digits THEN 1 + DigitRun(s, i + 1) ELSE 0

NoMatch == [ok |-> FALSE, next |-> 0, group |-> <<>>]

\* Attempt of the regex engine to match pat[k..] at position i of s.
\* (\d+) is greedy; giving digits back never helps here, because the
\* element after the group is a literal that is not a digit.
RECURSIVE MatchFrom(_, _, _, _, _)
MatchFrom(s, i, pat, k, grp) ==
    IF k > Len(pat) THEN [ok |-> TRUE, next |-> i, group |-> grp]
    ELSE IF pat[k].kind = "lit"
    THEN IF i <= Len(s) /\ s[i] = pat[k].tok
         THEN MatchFrom(s, i + 1, pat, k + 1, grp)
         ELSE NoMatch
    ELSE LET n == DigitRun(s, i) IN
         IF n = 0 THEN NoMatch
         ELSE MatchFrom(s, i + n, pat, k + 1, SubSeq(s, i, i + n - 1))

MatchAt(s, i, pat) == MatchFrom(s, i, pat, 1, <<>>)

\* re.split(pat, s) for a pattern with one capturing group:
\* [text, group, text, group, ..., text]; matches are searched left to
\* right and do not overlap.
RECURSIVE ReSplitFrom(_, _, _, _)
ReSplitFrom(s, pat, pos, segStart) ==
    IF pos > Len(s) THEN <<SubSeq(s, segStart, Len(s))>>
    ELSE LET m == MatchAt(s, pos, pat) IN
         IF m.ok
         THEN <<SubSeq(s, segStart, pos - 1), m.group>>
                  \o ReSplitFrom(s, pat, m.next, m.next)
         ELSE ReSplitFrom(s, pat, pos + 1, segStart)

re_split(pat, s) == ReSplitFrom(s, pat, 1, 1)

(***************************************************************************)
(* Documents                                                               *)
(***************************************************************************)
PageDocument(page_content, source_name, format, page) ==
    [page_content |-> page_content,
     metadata |-> [source |-> source_name, format |-> format, page |-> page]]

\* variant: the record of a whole file is given page 1
FileDocumentPaged(page_content, source_name, format) ==
    PageDocument(page_content, source_name, format, 1)

FileDocument(page_content, source_name, format) ==
    [page_content |-> page_content,
     metadata |-> [source |-> source_name, format |-> format]]

(***************************************************************************)
(* _split_into_pages                                                       *)
(***************************************************************************)
\* variant: the text after a separator is emitted untrimmed
RECURSIVE SplitPairsUntrimmed(_, _, _, _)
SplitPairsUntrimmed(parts, i, source_name, format) ==
    IF i > Len(parts) THEN <<>>
    ELSE LET page_num == IntOf(parts[i])
             here == IF i + 1 <= Len(parts) /\ Strip(parts[i + 1]) # <<>>
                     THEN <<PageDocument(parts[i + 1], source_name,
                                         format, page_num)>>
                     ELSE <<>>
         IN here \o SplitPairsUntrimmed(parts, i + 2, source_name, format)

\* variant: the records are numbered by their position, not by the number
\* the separator carries
RECURSIVE SplitPairsRenumbered(_, _, _, _)
SplitPairsRenumbered(parts, i, source_name, format) ==
    IF i > Len(parts) THEN <<>>
    ELSE LET page_num == i \div 2
             here == IF i + 1 <= Len(parts) /\ Strip(parts[i + 1]) # <<>>
                     THEN <<PageDocument(Strip(parts[i + 1]), source_name,
                                         format, page_num)>>
                     ELSE <<>>
         IN here \o SplitPairsRenumbered(parts, i + 2, source_name, format)

\* the loop "for i in range(1, len(parts), 2)" from (1-based) index i on
RECURSIVE SplitPairs(_, _, _, _)
SplitPairs(parts, i, source_name, format) ==
    IF i > Len(parts) THEN <<>>
    ELSE LET page_num == IntOf(parts[i])
             here == IF i + 1 <= Len(parts) /\ Strip(parts[i + 1]) # <<>>
                     THEN <<PageDocument(Strip(parts[i + 1]), source_name,
                                         format, page_num)>>
                     ELSE <<>>
         IN here \o SplitPairs(parts, i + 2, source_name, format)

\* variant: the text before the first separator is not emitted
SplitFirstDropped(parts, source_name, format) == <<>>

\* variant: the text before the first separator is emitted untrimmed
SplitFirstUntrimmed(parts, source_name, format) ==
    IF Strip(parts[1]) # <<>>
    THEN <<PageDocument(parts[1], source_name, format, 1)>>
    ELSE <<>>

SplitFirst(parts, source_name, format) ==
    IF Strip(parts[1]) # <<>>
    THEN <<PageDocument(Strip(parts[1]), source_name, format, 1)>>
    ELSE <<>>

split_into_pages(format, content, source_name) ==
    LET parts == re_split(separator_pattern, content) IN
    SplitFirst(parts, source_name, format)
        \o SplitPairs(parts, 2, source_name, format)

(***************************************************************************)
(* JSON elements are functions from field names to values; "kids", "rows", *)
(* "cells" and "list items" hold sequences of elements.                    *)
(***************************************************************************)
\* variant: only "kids" is looked into
NestingKeysKidsOnly == <<"kids">>

NestingKeys == <<"kids", "rows", "cells", "list items">>

\* variant: a nested element that names another page than the element it
\* stands in is left out
RECURSIVE extract_text_same_page(_)
extract_text_same_page(element) ==
    LET own == IF "content" \in DOMAIN element
               THEN <<element["content"]>>
               ELSE <<>>
        same(child) ==
            \/ "page number" \notin DOMAIN child
            \/ "page number" \notin DOMAIN element
            \/ child["page number"] = element["page number"]
        under(key) ==
            IF key \in DOMAIN element
            THEN LET kept == SelectSeq(element[key], same)
                 IN [c \in 1..Len(kept) |-> extract_text_same_page(kept[c])]
            ELSE <<>>
    IN JoinNL(FilterNone(own \o under("kids") \o under("rows")
                             \o under("cells") \o under("list items")))

RECURSIVE extract_text_from_element(_)
RECURSIVE NestedTexts(_, _)

\* the loop "for key in [...]: if key in element: for child in element[key]"
NestedTexts(element, k) ==
    IF k > Len(NestingKeys) THEN <<>>
    ELSE (IF NestingKeys[k] \in DOMAIN element
          THEN [c \in 1..Len(element[NestingKeys[k]]) |->
                    extract_text_from_element(element[NestingKeys[k]][c])]
          ELSE <<>>)
         \o NestedTexts(element, k + 1)

extract_text_from_element(element) ==
    LET own == IF "content" \in DOMAIN element
               THEN <<element["content"]>>
               ELSE <<>>
    IN JoinNL(FilterNone(own \o NestedTexts(element, 1)))

\* variant: every element is put on page 1
PageNumberOfFirstPage(element) == 1

\* element.get("page number", 1)
PageNumberOf(element) ==
    IF "page number" \in DOMAIN element THEN element["page number"] ELSE 1

\* data.get("kids", [])
TopLevelKids(data) == IF "kids" \in DOMAIN data THEN data["kids"] ELSE <<>>

\* variant: the elements of a page are kept last first
PageElementsReversed(data, page_num) ==
    LET els == SelectSeq(TopLevelKids(data),
                         LAMBDA el : PageNumberOf(el) = page_num)
    IN [e \in 1..Len(els) |-> els[Len(els) + 1 - e]]

\* pages[page_num] after the grouping loop
PageElements(data, page_num) ==
    SelectSeq(TopLevelKids(data), LAMBDA el : PageNumberOf(el) = page_num)

PageContent(data, page_num) ==
    LET page_elements == PageElements(data, page_num)
        page_texts == [e \in 1..Len(page_elements) |->
                          extract_text_from_element(page_elements[e])]
    IN JoinNL(FilterNone(page_texts))

Min(S) == CHOOSE x \in S : \A y \in S : x <= y

\* variant: a page is emitted whatever its text
RECURSIVE GroupPagesKeepBlank(_, _, _, _)
GroupPagesKeepBlank(data, keys, source_name, format) ==
    IF keys = {} THEN <<>>
    ELSE LET page_num == Min(keys) IN
         <<PageDocument(PageContent(data, page_num), source_name, format,
                        page_num)>>
             \o GroupPagesKeepBlank(data, keys \ {page_num}, source_name,
                                    format)

\* the loop "for page_num in sorted(pages.keys())" over the keys left
RECURSIVE GroupPages(_, _, _, _)
GroupPages(data, keys, source_name, format) ==
    IF keys = {} THEN <<>>
    ELSE LET page_num == Min(keys)
             page_content == PageContent(data, page_num)
             here == IF Strip(page_content) # <<>>
                     THEN <<PageDocument(page_content, source_name, format,
                                         page_num)>>
                     ELSE <<>>
         IN here \o GroupPages(data, keys \ {page_num}, source_name, format)

split_json_into_pages(format, data, source_name) ==
    LET kids == TopLevelKids(data)
        keys == {PageNumberOf(kids[e]) : e \in 1..Len(kids)}
    IN GroupPages(data, keys, source_name, format)

(***************************************************************************)
(* Formats.  A format is a sequence of characters, so that str.lower()     *)
(* is computed character by character.                                     *)
(***************************************************************************)
JSON_FMT == <<"j", "s", "o", "n">>
TEXT_FMT == <<"t", "e", "x", "t">>
HTML_FMT == <<"h", "t", "m", "l">>
MARKDOWN_FMT == <<"m", "a", "r", "k", "d", "o", "w", "n">>

UpperLetters == <<"A", "B", "C", "D", "E", "F", "G", "H", "I", "J", "K", "L",
                  "M", "N", "O", "P", "Q", "R", "S", "T", "U", "V", "W", "X",
                  "Y", "Z">>
LowerLetters == <<"a", "b", "c", "d", "e", "f", "g", "h", "i", "j", "k", "l",
                  "m", "n", "o", "p", "q", "r", "s", "t", "u", "v", "w", "x",
                  "y", "z">>

LowerChar(c) ==
    IF \E i \in 1..Len(UpperLetters) : UpperLetters[i] = c
    THEN LowerLetters[CHOOSE i \in 1..Len(UpperLetters) : UpperLetters[i] = c]
    ELSE c

\* variant: the format is stored as given
lowerNot(s) == s

\* str.lower()
lower(s) == [i \in 1..Len(s) |-> LowerChar(s[i])]

\* the list of lazy_load's membership test, in its order
ValidFormats == <<JSON_FMT, TEXT_FMT, HTML_FMT, MARKDOWN_FMT>>

InSeq(x, seq) == \E i \in 1..Len(seq) : seq[i] = x

(***************************************************************************)
(* __init__                                                                *)
(***************************************************************************)
\* the keyword parameters of __init__ that have a default, with the default
Defaults ==
    [format |-> TEXT_FMT, quiet |-> FALSE, content_safety_off |-> None,
     password |-> None, keep_line_breaks |-> FALSE,
     replace_invalid_chars |-> None, use_struct_tree |-> FALSE,
     table_method |-> None, reading_order |-> None, image_output |-> None,
     image_format |-> None, split_pages |-> TRUE]

Signature == {"file_path"} \cup DOMAIN Defaults

\* value bound to parameter k by a call with keyword arguments a
Arg(a, k) == IF k \in DOMAIN a THEN a[k] ELSE Defaults[k]

\* Python binds the arguments before the body runs: a keyword that is not a
\* parameter, or a missing file_path, is a TypeError raised by the call.
CallBinds(a) == DOMAIN a \subseteq Signature /\ "file_path" \in DOMAIN a

\* the attributes set by the body of __init__
init(a) ==
    [file_paths |-> IF "str" \in DOMAIN a["file_path"]
                    THEN <<a["file_path"].str>>
                    ELSE a["file_path"].list,
     format |-> lower(Arg(a, "format")),
     quiet |-> Arg(a, "quiet"),
     content_safety_off |-> Arg(a, "content_safety_off"),
     password |-> Arg(a, "password"),
     keep_line_breaks |-> Arg(a, "keep_line_breaks"),
     replace_invalid_chars |-> Arg(a, "replace_invalid_chars"),
     use_struct_tree |-> Arg(a, "use_struct_tree"),
     table_method |-> Arg(a, "table_method"),
     reading_order |-> Arg(a, "reading_order"),
     image_output |-> Arg(a, "image_output"),
     image_format |-> Arg(a, "image_format"),
     split_pages |-> Arg(a, "split_pages")]

NoLoader == [constructed |-> FALSE]
NoException == [type |-> NoError]

\* variant: no separator is ever requested
get_page_separator_none(ld) == None

\* _get_page_separator
get_page_separator(ld) ==
    IF ld.split_pages THEN [toks |-> PAGE_SPLIT_SEPARATOR] ELSE None

(***************************************************************************)
(* lazy_load: pure parts                                                   *)
(***************************************************************************)
\* variant: no format check
FormatAcceptedAlways(ld) == TRUE

\* the format check at the head of lazy_load
FormatAccepted(ld) == InSeq(ld.format, ValidFormats)

InvalidFormatError(ld) ==
    [type |-> "ValueError", value |-> ld.format, valid |-> ValidFormats]

\* variant: the converter is given one file, not the batch
ConvertKwargsFirstFileOnly(ld, output_dir, page_sep) ==
    [input_path |-> <<ld.file_paths[1]>>,
     output_dir |-> output_dir,
     format |-> <<ld.format>>,
     quiet |-> ld.quiet,
     content_safety_off |-> ld.content_safety_off,
     password |-> ld.password,
     keep_line_breaks |-> ld.keep_line_breaks,
     replace_invalid_chars |-> ld.replace_invalid_chars,
     use_struct_tree |-> ld.use_struct_tree,
     table_method |-> ld.table_method,
     reading_order |-> ld.reading_order,
     markdown_page_separator |-> page_sep,
     text_page_separator |-> page_sep,
     html_page_separator |-> page_sep,
     image_output |-> ld.image_output,
     image_format |-> ld.image_format]

\* variant: image_output and image_format are passed crosswise
ConvertKwargsSwapped(ld, output_dir, page_sep) ==
    [input_path |-> ld.file_paths,
     output_dir |-> output_dir,
     format |-> <<ld.format>>,
     quiet |-> ld.quiet,
     content_safety_off |-> ld.content_safety_off,
     password |-> ld.password,
     keep_line_breaks |-> ld.keep_line_breaks,
     replace_invalid_chars |-> ld.replace_invalid_chars,
     use_struct_tree |-> ld.use_struct_tree,
     table_method |-> ld.table_method,
     reading_order |-> ld.reading_order,
     markdown_page_separator |-> page_sep,
     text_page_separator |-> page_sep,
     html_page_separator |-> page_sep,
     image_output |-> ld.image_format,
     image_format |-> ld.image_output]

\* the keyword arguments of the call of opendataloader_pdf.convert
ConvertKwargs(ld, output_dir, page_sep) ==
    [input_path |-> ld.file_paths,
     output_dir |-> output_dir,
     format |-> <<ld.format>>,
     quiet |-> ld.quiet,
     content_safety_off |-> ld.content_safety_off,
     password |-> ld.password,
     keep_line_breaks |-> ld.keep_line_breaks,
     replace_invalid_chars |-> ld.replace_invalid_chars,
     use_struct_tree |-> ld.use_struct_tree,
     table_method |-> ld.table_method,
     reading_order |-> ld.reading_order,
     markdown_page_separator |-> page_sep,
     text_page_separator |-> page_sep,
     html_page_separator |-> page_sep,
     image_output |-> ld.image_output,
     image_format |-> ld.image_format]

\* the if/elif chain that picks the extension of the output files; it has
\* no else branch, so for any other format the name ext stays unbound
Unbound == "(unbound)"

ExtOf(format) ==
    CASE format = JSON_FMT -> "json"
      [] format = TEXT_FMT -> "txt"
      [] format = HTML_FMT -> "html"
      [] format = MARKDOWN_FMT -> "md"
      [] OTHER -> Unbound

\* output_path.glob("*.<ext>"): the files of the directory with that suffix
GlobMatches(dir, ext) == {f \in dir : f.name.ext = ext}

\* variant: the name of the output file is taken as it is
SourceNameKeepSuffix(file) == file.name

\* file.with_suffix(".pdf").name
SourceName(file) == [stem |-> file.name.stem, ext |-> "pdf"]

\* json.loads(content): the file's text either parses to a JSON value or not
json_loads(content) == content.parse

\* What the body of the loop yields for one file that has been read, and the
\* exception (if any) raised once those records have been yielded.
ProcessFile(ld, content, source_name) ==
    IF ld.split_pages
    THEN IF ld.format = JSON_FMT
         THEN LET r == json_loads(content) IN
              IF ~r.ok
              THEN [docs |-> <<>>, error |-> "JSONDecodeError"]
              ELSE IF ~r.isdict
              THEN [docs |-> <<>>, error |-> "AttributeError"]
              ELSE [docs |-> split_json_into_pages(ld.format, r.value,
                                                   source_name),
                    error |-> NoError]
         ELSE [docs |-> split_into_pages(ld.format, content.text, source_name),
               error |-> NoError]
    ELSE [docs |-> <<FileDocument(content.text, source_name, ld.format)>>,
          error |-> NoError]

\* variant: the except clause raises the exception again
OuterExceptReraise(e) ==
    [pc |-> "raised", raised |-> [type |-> e],
     log |-> <<[op |-> "log", handler |-> "lazy_load", error |-> e]>>]

\* "except Exception as e: logger.error(...)" around the body of lazy_load:
\* the exception is logged and the generator returns.
OuterExcept(e) ==
    [pc |-> "exhausted", raised |-> NoException,
     log |-> <<[op |-> "log", handler |-> "lazy_load", error |-> e]>>]

(***************************************************************************)
(* The external converter, opendataloader_pdf.convert, and the PDFs it is  *)
(* given.  A PDF is a sequence of page texts; an output file is            *)
(* <stem>.<ext> and holds a text together with what json.loads makes of    *)
(* that text.                                                              *)
(***************************************************************************)
RECURSIVE DigitsOf(_)
DigitsOf(n) ==
    IF n < 10 THEN <<CHOOSE d \in Digits : DigitVal(d) = n>>
    ELSE DigitsOf(n \div 10) \o <<CHOOSE d \in Digits : DigitVal(d) = n % 10>>

\* the template with %page-number% replaced by the page number
RECURSIVE Instantiate(_, _)
Instantiate(template, n) ==
    IF template = <<>> THEN <<>>
    ELSE (IF template[1] = PLACEHOLDER THEN DigitsOf(n) ELSE <<template[1]>>)
         \o Instantiate(Tail(template), n)

\* page k of a flat output, preceded by its separator unless it is an
\* unseparated first page
RECURSIVE RenderPages(_, _, _, _)
RenderPages(pages, k, sep, leading) ==
    IF k > Len(pages) THEN <<>>
    ELSE (IF k = 1 /\ ~leading THEN <<>>
          ELSE IF sep = None THEN <<NL>>
          ELSE Instantiate(sep.toks, k))
         \o pages[k] \o RenderPages(pages, k + 1, sep, leading)

NotJson == [ok |-> FALSE]
JsonObject(value) == [ok |-> TRUE, isdict |-> TRUE, value |-> value]
JsonArray == [ok |-> TRUE, isdict |-> FALSE]

Paragraph(page, text) ==
    [k \in {"type", "page number", "content"} |->
        CASE k = "type" -> "paragraph"
          [] k = "page number" -> page
          [] k = "content" -> text]

\* the JSON tree of a PDF: one paragraph per page
PdfTree(pages) ==
    [k \in {"kids"} |-> [p \in 1..Len(pages) |-> Paragraph(p, pages[p])]]

PdfPages(kind) ==
    CASE kind = "gap" -> << <<"a">>, <<SP>>, <<"b">> >>
      [] kind = "blank" -> << <<SP>> >>
      [] kind = "empty" -> << >>

\* the output written for one PDF
RenderOutput(kind, format, sep, leading) ==
    CASE kind = "truncated" -> [text |-> <<"{">>, parse |-> NotJson]
      [] kind = "array" -> [text |-> <<"[", "]">>, parse |-> JsonArray]
      [] OTHER ->
           IF format = JSON_FMT
           THEN [text |-> <<"{", kind, "}">>,
                 parse |-> JsonObject(PdfTree(PdfPages(kind)))]
           ELSE [text |-> RenderPages(PdfPages(kind), 1, sep, leading),
                 parse |-> NotJson]

ConverterExt(format) ==
    CASE format = JSON_FMT -> "json"
      [] format = TEXT_FMT -> "txt"
      [] format = HTML_FMT -> "html"
      [] format = MARKDOWN_FMT -> "md"
      [] OTHER -> "out"

ConverterSeparator(kwargs) ==
    CASE kwargs.format[1] = TEXT_FMT -> kwargs.text_page_separator
      [] kwargs.format[1] = MARKDOWN_FMT -> kwargs.markdown_page_separator
      [] kwargs.format[1] = HTML_FMT -> kwargs.html_page_separator
      [] OTHER -> None

StrayFile ==
    [name |-> [stem |-> "a_image1", ext |-> "png"],
     content |-> [text |-> <<"a">>, parse |-> NotJson]]

\* the files a successful conversion writes into kwargs.output_dir
ConverterOutput(world, kwargs) ==
    {[name |-> [stem |-> kwargs.input_path[p].stem,
                ext |-> ConverterExt(kwargs.format[1])],
      content |-> RenderOutput(world.render[kwargs.input_path[p].stem],
                               kwargs.format[1], ConverterSeparator(kwargs),
                               world.leading)]
        : p \in 1..Len(kwargs.input_path)}
    \cup (IF world.stray THEN {StrayFile} ELSE {})

(***************************************************************************)
(* Actions: the constructor call and the steps of one lazy_load iteration  *)
(***************************************************************************)
NoLocals ==
    [output_dir |-> 0, page_sep |-> None, ext |-> "", files |-> <<>>,
     i |-> 0, pending |-> <<>>, pendingError |-> NoError]

NoProbe == [method |-> "none"]

\* files[i], the file of the current pass of the loop
CurrentFile == locals.files[locals.i]

\* an exception raised inside the try block ends in its except clause
RaiseInTry(e) ==
    /\ pc' = OuterExcept(e).pc
    /\ raised' = OuterExcept(e).raised
    /\ events' = events \o OuterExcept(e).log

\* OpenDataLoaderPDFLoader(**args)
Construct ==
    /\ pc = "new"
    /\ IF CallBinds(args)
       THEN /\ self' = init(args)
            /\ pc' = "constructed"
            /\ raised' = NoException
       ELSE /\ self' = NoLoader
            /\ pc' = "ctor_raised"
            /\ raised' = [type |-> "TypeError"]
    /\ UNCHANGED <<args, converter, tmpdirs, locals, events, probe, probeResult>>

\* the first next() on loader.lazy_load(): the format check
CheckFormat ==
    /\ pc = "constructed"
    /\ IF FormatAccepted(self)
       THEN pc' = "mkdtemp" /\ raised' = raised
       ELSE pc' = "raised" /\ raised' = InvalidFormatError(self)
    /\ UNCHANGED <<args, self, converter, tmpdirs, locals, events, probe,
                   probeResult>>

\* output_dir = tempfile.mkdtemp(...): a new, empty directory, or an OSError
Mkdtemp ==
    /\ pc = "mkdtemp"
    /\ \/ /\ tmpdirs' = Append(tmpdirs, {})
          /\ locals' = [locals EXCEPT !.output_dir = Len(tmpdirs) + 1]
          /\ events' = Append(events, [op |-> "mkdtemp",
                                       dir |-> Len(tmpdirs) + 1])
          /\ pc' = "convert"
          /\ UNCHANGED raised
       \/ /\ RaiseInTry("OSError:mkdtemp")
          /\ UNCHANGED <<tmpdirs, locals>>
    /\ UNCHANGED <<args, self, converter, probe, probeResult>>

\* page_sep = self._get_page_separator(); opendataloader_pdf.convert(...)
Convert ==
    /\ pc = "convert"
    /\ LET page_sep == get_page_separator(self)
           kwargs == ConvertKwargs(self, locals.output_dir, page_sep)
           call == [op |-> "convert", kwargs |-> kwargs]
       IN /\ locals' = [locals EXCEPT !.page_sep = page_sep]
          /\ IF converter.raises
             THEN /\ pc' = OuterExcept("ConvertError").pc
                  /\ raised' = OuterExcept("ConvertError").raised
                  /\ events' = events \o <<call>>
                                   \o OuterExcept("ConvertError").log
                  /\ UNCHANGED tmpdirs
             ELSE /\ tmpdirs' = [tmpdirs EXCEPT ![kwargs.output_dir] =
                                     @ \cup ConverterOutput(converter, kwargs)]
                  /\ events' = Append(events, call)
                  /\ pc' = "glob"
                  /\ UNCHANGED raised
    /\ UNCHANGED <<args, self, converter, probe, probeResult>>

\* every order in which glob may list the files of set S
Orderings(S) ==
    {f \in [1..Cardinality(S) -> S] :
        \A i, j \in 1..Cardinality(S) : i # j => f[i] # f[j]}

\* ext = ...; files = list(Path(output_dir).glob("*.<ext>")); reading an
\* unbound ext is an UnboundLocalError
Glob ==
    /\ pc = "glob"
    /\ LET ext == ExtOf(self.format) IN
       IF ext = Unbound
       THEN /\ RaiseInTry("UnboundLocalError")
            /\ UNCHANGED locals
       ELSE /\ \E files \in
                  Orderings(GlobMatches(tmpdirs[locals.output_dir], ext)) :
                  locals' = [locals EXCEPT !.ext = ext, !.files = files,
                                           !.i = 1]
            /\ pc' = "loop"
            /\ UNCHANGED <<events, raised>>
    /\ UNCHANGED <<args, self, converter, tmpdirs, probe, probeResult>>

\* variant: at the end of the loop the scratch directory is removed
ReadFileRemovesDir ==
    /\ pc = "loop"
    /\ IF locals.i > Len(locals.files)
       THEN /\ pc' = "exhausted"
            /\ tmpdirs' = SubSeq(tmpdirs, 1, Len(tmpdirs) - 1)
            /\ UNCHANGED <<locals, events, raised>>
       ELSE /\ \/ /\ RaiseInTry("OSError:open")
                  /\ UNCHANGED locals
               \/ LET content == CurrentFile.content
                      out == ProcessFile(self, content,
                                         SourceName(CurrentFile))
                  IN /\ locals' = [locals EXCEPT !.pending = out.docs,
                                                 !.pendingError = out.error]
                     /\ events' = Append(events, [op |-> "read",
                                                  file |-> CurrentFile.name])
                     /\ pc' = "emit"
                     /\ UNCHANGED raised
            /\ UNCHANGED tmpdirs
    /\ UNCHANGED <<args, self, converter, probe, probeResult>>

\* one pass of "for file in files" up to its first yield: open and read the
\* file, name the source, start the splitter; or the end of the loop
ReadFile ==
    /\ pc = "loop"
    /\ IF locals.i > Len(locals.files)
       THEN /\ pc' = "exhausted"
            /\ UNCHANGED <<locals, events, raised>>
       ELSE \/ /\ RaiseInTry("OSError:open")
               /\ UNCHANGED locals
            \/ LET content == CurrentFile.content
                   out == ProcessFile(self, content, SourceName(CurrentFile))
               IN /\ locals' = [locals EXCEPT !.pending = out.docs,
                                              !.pendingError = out.error]
                  /\ events' = Append(events, [op |-> "read",
                                               file |-> CurrentFile.name])
                  /\ pc' = "emit"
                  /\ UNCHANGED raised
    /\ UNCHANGED <<args, self, converter, tmpdirs, probe, probeResult>>

\* the next record of the current file is handed to the consumer
Yield ==
    /\ pc = "emit"
    /\ locals.pending # <<>>
    /\ events' = Append(events, [op |-> "yield", file |-> CurrentFile.name,
                                 doc |-> Head(locals.pending)])
    /\ locals' = [locals EXCEPT !.pending = Tail(@)]
    /\ pc' = "suspended"
    /\ UNCHANGED <<args, self, converter, tmpdirs, raised, probe, probeResult>>

\* the consumer asks for the next record
Pull ==
    /\ pc = "suspended"
    /\ pc' = "emit"
    /\ UNCHANGED <<args, self, converter, tmpdirs, locals, events, raised,
                   probe, probeResult>>

\* variant: the deletion stands in a finally clause, so that it is also done
\* when the consumer stops
CloseWithCleanup ==
    /\ pc = "suspended"
    /\ pc' = "closed"
    /\ tmpdirs' = [tmpdirs EXCEPT ![locals.output_dir] = @ \ {CurrentFile}]
    /\ events' = Append(events, [op |-> "unlink", file |-> CurrentFile.name,
                                 ok |-> TRUE])
    /\ UNCHANGED <<args, self, converter, locals, raised, probe, probeResult>>

\* the consumer stops: close() (or garbage collection) raises GeneratorExit
\* at the yield; it is no Exception, so no except clause handles it
Close ==
    /\ pc = "suspended"
    /\ pc' = "closed"
    /\ UNCHANGED <<args, self, converter, tmpdirs, locals, events, raised,
                   probe, probeResult>>

\* the splitter of the current file raises after its records
SplitterRaises ==
    /\ pc = "emit"
    /\ locals.pending = <<>>
    /\ locals.pendingError # NoError
    /\ RaiseInTry(locals.pendingError)
    /\ UNCHANGED <<args, self, converter, tmpdirs, locals, probe, probeResult>>

\* variant: the loop goes on to the next file while records of the current
\* file are still to be handed over
UnlinkBeforeConsumed ==
    /\ pc = "emit"
    /\ locals.pendingError = NoError
    /\ tmpdirs' = [tmpdirs EXCEPT ![locals.output_dir] = @ \ {CurrentFile}]
    /\ events' = Append(events, [op |-> "unlink", file |-> CurrentFile.name,
                                 ok |-> TRUE])
    /\ locals' = [locals EXCEPT !.i = @ + 1, !.pending = <<>>]
    /\ pc' = "loop"
    /\ UNCHANGED <<args, self, converter, raised, probe, probeResult>>

\* variant: the loop goes on to the next file without deleting this one
UnlinkSkipped ==
    /\ pc = "emit"
    /\ locals.pending = <<>>
    /\ locals.pendingError = NoError
    /\ locals' = [locals EXCEPT !.i = @ + 1]
    /\ pc' = "loop"
    /\ UNCHANGED <<args, self, converter, tmpdirs, events, raised, probe,
                   probeResult>>

\* variant: a failing deletion is not caught where it happens; it ends the
\* loop in the except clause around the body of lazy_load
UnlinkFailureFatal ==
    /\ pc = "emit"
    /\ locals.pending = <<>>
    /\ locals.pendingError = NoError
    /\ \/ /\ tmpdirs' = [tmpdirs EXCEPT ![locals.output_dir] =
                            @ \ {CurrentFile}]
          /\ events' = Append(events, [op |-> "unlink",
                                       file |-> CurrentFile.name,
                                       ok |-> TRUE])
          /\ locals' = [locals EXCEPT !.i = @ + 1]
          /\ pc' = "loop"
          /\ UNCHANGED raised
       \/ /\ UNCHANGED <<tmpdirs, locals>>
          /\ events' = events
                \o <<[op |-> "unlink", file |-> CurrentFile.name,
                      ok |-> FALSE]>>
                \o OuterExcept("OSError:unlink").log
          /\ pc' = OuterExcept("OSError:unlink").pc
          /\ raised' = OuterExcept("OSError:unlink").raised
    /\ UNCHANGED <<args, self, converter, probe, probeResult>>

\* "try: file.unlink() except Exception: logger.error(...)", then the next
\* pass of the loop
Unlink ==
    /\ pc = "emit"
    /\ locals.pending = <<>>
    /\ locals.pendingError = NoError
    /\ \/ /\ tmpdirs' = [tmpdirs EXCEPT ![locals.output_dir] =
                            @ \ {CurrentFile}]
          /\ events' = Append(events, [op |-> "unlink",
                                       file |-> CurrentFile.name,
                                       ok |-> TRUE])
       \/ /\ UNCHANGED tmpdirs
          /\ events' = events
                \o <<[op |-> "unlink", file |-> CurrentFile.name,
                      ok |-> FALSE],
                     [op |-> "log", handler |-> "unlink",
                      error |-> "OSError:unlink"]>>
    /\ locals' = [locals EXCEPT !.i = @ + 1]
    /\ pc' = "loop"
    /\ UNCHANGED <<args, self, converter, raised, probe, probeResult>>

Next ==
    \/ Construct
    \/ CheckFormat
    \/ Mkdtemp
    \/ Convert
    \/ Glob
    \/ ReadFile
    \/ Yield
    \/ Pull
    \/ Close
    \/ SplitterRaises
    \/ Unlink

(***************************************************************************)
(* Initial states: a constructor call about to be made, an external        *)
(* converter and a file system.                                            *)
(***************************************************************************)
PathA == [stem |-> "a", ext |-> "pdf"]
PathB == [stem |-> "b", ext |-> "pdf"]

FilePathChoices == {[str |-> PathA], [list |-> <<PathA, PathB>>]}

Absent == <<"(absent)">>

FormatChoices ==
    {Absent, JSON_FMT, <<"J", "S", "O", "N">>, HTML_FMT, MARKDOWN_FMT,
     <<"x", "m", "l">>}

OptionKeys ==
    {"quiet", "content_safety_off", "password", "keep_line_breaks",
     "replace_invalid_chars", "use_struct_tree", "table_method",
     "reading_order", "image_output", "image_format"}

SeparatorKeys ==
    {"markdown_page_separator", "text_page_separator", "html_page_separator"}

\* a value other than the default for each keyword
Given(k) ==
    CASE k = "quiet" -> TRUE
      [] k = "content_safety_off" -> [list |-> <<"hidden-text", "off-page">>]
      [] k = "password" -> [str |-> "secret"]
      [] k = "keep_line_breaks" -> TRUE
      [] k = "replace_invalid_chars" -> [str |-> "?"]
      [] k = "use_struct_tree" -> TRUE
      [] k = "table_method" -> [str |-> "cluster"]
      [] k = "reading_order" -> [str |-> "off"]
      [] k = "image_output" -> [str |-> "embedded"]
      [] k = "image_format" -> [str |-> "jpeg"]
      [] k = "split_pages" -> FALSE
      [] k = "markdown_page_separator" -> [toks |-> <<"-", "-", "-">>]
      [] k = "text_page_separator" -> [toks |-> <<NL, NL>>]
      [] k = "html_page_separator" -> [toks |-> <<"<hr/>">>]

\* the call OpenDataLoaderPDFLoader(file_path=fp, format=fmt, **{k: Given(k)})
ArgsOf(fp, fmt, keys) ==
    [k \in {"file_path"} \cup (IF fmt = Absent THEN {} ELSE {"format"})
            \cup keys |->
        IF k = "file_path" THEN fp
        ELSE IF k = "format" THEN fmt
        ELSE Given(k)]

OutputKinds == {"gap", "blank", "empty", "truncated", "array"}

FailingConverter ==
    [raises |-> TRUE, leading |-> FALSE, stray |-> FALSE,
     render |-> [st \in {"a", "b"} |-> "gap"]]

\* the converters that matter for a call with these arguments
Worlds(a) ==
    IF ~CallBinds(a) THEN {FailingConverter}
    ELSE {FailingConverter} \cup
         {[raises |-> FALSE, leading |-> l, stray |-> s,
           render |-> [st \in {"a", "b"} |-> IF st = "a" THEN ka ELSE kb]]
            : l \in BOOLEAN, s \in BOOLEAN, ka \in OutputKinds,
              kb \in IF "list" \in DOMAIN a["file_path"]
                     THEN OutputKinds ELSE {"gap"}}

\* a scratch directory left by an earlier iteration
LeftoverDir ==
    {[name |-> [stem |-> "old", ext |-> "txt"],
      content |-> [text |-> <<"o">>, parse |-> NotJson]]}

InitWith(a, w, dirs) ==
    /\ args = a
    /\ self = NoLoader
    /\ pc = "new"
    /\ converter = w
    /\ tmpdirs = dirs
    /\ locals = NoLocals
    /\ events = <<>>
    /\ raised = NoException
    /\ probe = NoProbe
    /\ probeResult = <<>>

Init ==
    \E fp \in FilePathChoices, fmt \in FormatChoices,
       opts \in {{}, OptionKeys}, split \in {{}, {"split_pages"}},
       seps \in {{}, SeparatorKeys}, dirs \in {<<>>, <<LeftoverDir>>} :
       \E w \in Worlds(ArgsOf(fp, fmt, opts \cup split \cup seps)) :
          InitWith(ArgsOf(fp, fmt, opts \cup split \cup seps), w, dirs)

Spec == Init /\ [][Next]_vars

(***************************************************************************)
(* Every combination of the optional constructor arguments.                *)
(***************************************************************************)
InitOptions ==
    \E fp \in FilePathChoices, fmt \in {Absent, JSON_FMT},
       opts \in SUBSET OptionKeys, split \in {{}, {"split_pages"}} :
       InitWith(ArgsOf(fp, fmt, opts \cup split),
                [raises |-> FALSE, leading |-> FALSE, stray |-> FALSE,
                 render |-> [st \in {"a", "b"} |-> "truncated"]],
                <<>>)

SpecOptions == InitOptions /\ [][Next]_vars

(***************************************************************************)
(* Every spelling of the format: each letter of json, text, html and       *)
(* markdown in lower or upper case, the format left out, and a format      *)
(* that is none of them.                                                   *)
(***************************************************************************)
UpperChar(c) ==
    IF \E i \in 1..Len(LowerLetters) : LowerLetters[i] = c
    THEN UpperLetters[CHOOSE i \in 1..Len(LowerLetters) : LowerLetters[i] = c]
    ELSE c

CaseVariants(fmt) ==
    {[i \in 1..Len(fmt) |-> IF i \in U THEN UpperChar(fmt[i]) ELSE fmt[i]]
        : U \in SUBSET (1..Len(fmt))}

InitFormats ==
    \E fmt \in {Absent, <<"x", "m", "l">>}
                 \cup UNION {CaseVariants(ValidFormats[f])
                                : f \in 1..Len(ValidFormats)},
       split \in {{}, {"split_pages"}}, kind \in {"gap", "truncated"} :
       InitWith(ArgsOf([str |-> PathA], fmt, split),
                [raises |-> FALSE, leading |-> FALSE, stray |-> TRUE,
                 render |-> [st \in {"a", "b"} |-> kind]],
                <<LeftoverDir>>)

SpecFormats == InitFormats /\ [][Next]_vars

(***************************************************************************)
(* Direct calls of the helper methods on a constructed loader, as the      *)
(* unit tests make them: loader._split_into_pages(content, source_name)    *)
(* and loader._split_json_into_pages(data, source_name).                   *)
(***************************************************************************)
MaxLen == 5
MaxPages == 3
MaxKids == 3

Alphabet == {"a", SP, NL, OPEN, "1", CLOSE}

\* every text of at most n tokens
Texts(n) == UNION {[1..m -> Alphabet] : m \in 0..n}

\* page texts: plain, blank, padded with whitespace, holding page-break
\* markers of their own
PageTexts ==
    { <<>>, <<"a">>, <<"b">>, <<SP>>, <<SP, "a">>, <<"a", NL>>,
      <<"a", NL, OPEN, "7", CLOSE, NL, "b">>,
      <<"a", NL, OPEN, "7", CLOSE>>,
      <<OPEN, "7", CLOSE, NL, "a">> }

InternalSeparator == [toks |-> PAGE_SPLIT_SEPARATOR]

InitProbe(fmt, p) ==
    /\ args = ArgsOf([str |-> PathA], fmt, {})
    /\ self = init(ArgsOf([str |-> PathA], fmt, {}))
    /\ pc = "constructed"
    /\ converter = FailingConverter
    /\ tmpdirs = <<>>
    /\ locals = NoLocals
    /\ events = <<>>
    /\ raised = NoException
    /\ probe = p
    /\ probeResult = <<>>

InitSplit ==
    \E fmt \in {Absent, HTML_FMT} :
       \/ \E content \in Texts(MaxLen) :
             InitProbe(fmt, [method |-> "_split_into_pages", kind |-> "raw",
                             content |-> content, pages |-> <<>>,
                             leading |-> FALSE, source_name |-> PathA])
       \/ \E n \in 1..MaxPages, leading \in BOOLEAN :
             \E pages \in [1..n -> PageTexts] :
                InitProbe(fmt, [method |-> "_split_into_pages",
                                kind |-> "pages",
                                content |-> RenderPages(pages, 1,
                                                InternalSeparator, leading),
                                pages |-> pages, leading |-> leading,
                                source_name |-> PathA])

\* the numbers a separator may carry: the digits written, and their value
NumberChoices ==
    { [text |-> <<"0">>, value |-> 0], [text |-> <<"1">>, value |-> 1],
      [text |-> <<"2">>, value |-> 2], [text |-> <<"3">>, value |-> 3],
      [text |-> <<"0", "7">>, value |-> 7],
      [text |-> <<"1", "0">>, value |-> 10] }

SegmentTexts == { <<"a">>, <<SP>>, <<"b", NL>> }

\* the segments, each preceded by a separator that carries its number
RECURSIVE JoinNumbered(_, _, _)
JoinNumbered(pages, nums, k) ==
    IF k > Len(pages) THEN <<>>
    ELSE <<NL, OPEN>> \o nums[k].text \o <<CLOSE, NL>> \o pages[k]
            \o JoinNumbered(pages, nums, k + 1)

\* a text whose separators carry any numbers, in any order
InitNumbered ==
    \E n \in 1..MaxPages, head \in {<<>>, <<"h">>} :
       \E pages \in [1..n -> SegmentTexts], nums \in [1..n -> NumberChoices] :
          InitProbe(Absent, [method |-> "_split_into_pages",
                             kind |-> "numbered",
                             content |-> head \o JoinNumbered(pages, nums, 1),
                             pages |-> pages, nums |-> nums, head |-> head,
                             source_name |-> PathA])

\* docs = list(loader._split_into_pages(content, source_name))
CallSplitIntoPages ==
    /\ pc = "constructed"
    /\ probe.method = "_split_into_pages"
    /\ probeResult' = split_into_pages(self.format, probe.content,
                                       probe.source_name)
    /\ pc' = "returned"
    /\ UNCHANGED <<args, self, converter, tmpdirs, locals, events, raised,
                   probe>>

Node(keys, type, page, content, nested) ==
    [k \in keys |->
        CASE k = "type" -> type
          [] k = "page number" -> page
          [] k = "content" -> content
          [] OTHER -> nested]

Leaf(text) == [k \in {"content"} |-> text]
Cell(text) == [k \in {"kids"} |-> <<Leaf(text)>>]

\* the top-level elements the trees are built from
Elements ==
    << Paragraph(1, <<"a">>),
       Paragraph(2, <<"b">>),
       Paragraph(3, <<"c">>),
       Paragraph(2, <<SP>>),
       Paragraph(1, <<>>),
       Paragraph(0, <<"z">>),
       Paragraph(-1, <<"m">>),
       Node({"type", "content"}, "heading", 0, <<"h">>, <<>>),
       Node({"type", "page number", "rows"}, "table", 1, <<>>,
            << [k \in {"type", "cells"} |->
                   IF k = "type" THEN "table row"
                   ELSE <<Cell(<<"c", "1">>), Cell(<<"c", "2">>)>>] >>),
       Node({"type", "page number", "list items"}, "list", 2, <<>>,
            <<Leaf(<<"i">>), Leaf(<<>>), Leaf(<<"j">>)>>),
       Node({"type", "page number", "list items"}, "list", 2, <<>>,
            <<Paragraph(5, <<"k">>)>>),
       Node({"type", "page number", "content", "kids"}, "section", 3,
            <<"s">>, <<Paragraph(1, <<"n">>)>>),
       Node({"type", "page number", "kids"}, "section", 3, <<>>,
            <<Leaf(<<SP>>), Leaf(<<NL>>)>>) >>

InitJson ==
    \E fmt \in {JSON_FMT}, n \in 0..MaxKids :
       \E idx \in [1..n -> 1..Len(Elements)] :
          \E haskids \in IF n = 0 THEN BOOLEAN ELSE {TRUE} :
             InitProbe(fmt,
                 [method |-> "_split_json_into_pages",
                  data |-> [k \in (IF haskids THEN {"kids"} ELSE {})
                                   \cup {"file name"} |->
                               IF k = "kids"
                               THEN [e \in 1..n |-> Elements[idx[e]]]
                               ELSE <<"a", ".", "p", "d", "f">>],
                  source_name |-> PathA])

\* docs = list(loader._split_json_into_pages(data, source_name))
CallSplitJsonIntoPages ==
    /\ pc = "constructed"
    /\ probe.method = "_split_json_into_pages"
    /\ probeResult' = split_json_into_pages(self.format, probe.data,
                                            probe.source_name)
    /\ pc' = "returned"
    /\ UNCHANGED <<args, self, converter, tmpdirs, locals, events, raised,
                   probe>>

InitHelpers == InitSplit \/ InitNumbered \/ InitJson

NextHelpers == CallSplitIntoPages \/ CallSplitJsonIntoPages

SpecHelpers == InitHelpers /\ [][NextHelpers]_vars

(***************************************************************************)
(* The legacy loader: OpenDataLoaderPDFLoader(file_path, **kwargs), whose   *)
(* lazy_load runs the converter on one file at a time, takes its output as *)
(* a string, and either wraps it whole (no_json) or parses it and walks    *)
(* the tree, one record per node with content.                             *)
(***************************************************************************)
\* a field that may be missing: node.get(key)
Opt(el, key) == IF key \in DOMAIN el THEN [val |-> el[key]] ELSE None

\* the record of one node
NodeDocument(node, source) ==
    [page_content |-> node["content"],
     metadata |-> [page |-> Opt(node, "page number"),
                   type |-> Opt(node, "type"),
                   source |-> source]]

\* the record of a whole output
RawDocument(text, source) ==
    [page_content |-> text, metadata |-> [source |-> source]]

\* variant: the records of the nested nodes come before the node's own
RECURSIVE FlattenChildrenFirst(_, _)
FlattenChildrenFirst(nodes, source) ==
    IF nodes = <<>> THEN <<>>
    ELSE LET node == nodes[1] IN
         (IF "kids" \in DOMAIN node
          THEN FlattenChildrenFirst(node["kids"], source) ELSE <<>>)
         \o (IF "content" \in DOMAIN node /\ node["content"] # <<>>
             THEN <<NodeDocument(node, source)>> ELSE <<>>)
         \o FlattenChildrenFirst(Tail(nodes), source)

\* the pre-order walk of a list of sibling nodes
RECURSIVE Flatten(_, _)
Flatten(nodes, source) ==
    IF nodes = <<>> THEN <<>>
    ELSE LET node == nodes[1] IN
         (IF "content" \in DOMAIN node /\ node["content"] # <<>>
          THEN <<NodeDocument(node, source)>> ELSE <<>>)
         \o (IF "kids" \in DOMAIN node
             THEN Flatten(node["kids"], source) ELSE <<>>)
         \o Flatten(Tail(nodes), source)

\* variant: an output that cannot be parsed gives no record
LegacyFallbackDropped(output, source) == <<>>

\* the whole output as the single record, when it is no tree
LegacyFallback(output, source) == <<RawDocument(output.text, source)>>

\* the records of one file's output
LegacyRecords(output, source, no_json) ==
    IF no_json THEN <<RawDocument(output.text, source)>>
    ELSE IF ~output.parse.ok \/ ~output.parse.isdict
    THEN LegacyFallback(output, source)
    ELSE Flatten(TopLevelKids(output.parse.value), source)

\* the nodes the legacy trees are built from
LegacyNodes ==
    << Node({"type", "content", "page number", "kids"}, "Title", 1,
            <<"t">>, <<>>),
       Node({"type", "content", "page number"}, "Para", 1, <<"p">>, <<>>),
       Node({"type", "content", "page number", "kids"}, "Section", 2,
            <<"s">>,
            << Node({"type", "content", "page number"}, "Para", 2,
                    <<"q">>, <<>>),
               Node({"type", "kids"}, "Div", 0, <<>>,
                    << Node({"content"}, "", 0, <<"d">>, <<>>) >>) >>),
       Node({"type", "content", "page number"}, "Para", 3, <<>>, <<>>),
       Node({"type", "page number", "kids"}, "List", 3, <<>>,
            << Node({"type", "content"}, "Item", 0, <<"i">>, <<>>),
               Node({"type", "content"}, "Item", 0, <<"j">>, <<>>) >>),
       Node({"content"}, "", 0, <<SP, "w">>, <<>>) >>

\* outputs that are no JSON tree
RawOutputs ==
    { [text |-> <<"{">>, parse |-> NotJson],
      [text |-> <<>>, parse |-> NotJson],
      [text |-> <<SP, "a", NL>>, parse |-> NotJson],
      [text |-> <<"[", "]">>, parse |-> JsonArray] }

InitLegacyProbe(output, no_json) ==
    /\ args = [k \in {"file_path"} \cup (IF no_json THEN {"no_json"} ELSE {})
                  |-> IF k = "file_path" THEN [str |-> PathA] ELSE TRUE]
    /\ self = [file_paths |-> <<PathA>>, no_json |-> no_json]
    /\ pc = "constructed"
    /\ converter = FailingConverter
    /\ tmpdirs = <<>>
    /\ locals = NoLocals
    /\ events = <<>>
    /\ raised = NoException
    /\ probe = [method |-> "legacy_lazy_load", output |-> output]
    /\ probeResult = <<>>

InitLegacy ==
    \E no_json \in BOOLEAN :
       \/ \E output \in RawOutputs : InitLegacyProbe(output, no_json)
       \/ \E n \in 0..MaxKids :
             \E idx \in [1..n -> 1..Len(LegacyNodes)] :
                InitLegacyProbe(
                    [text |-> <<"{", "tree", "}">>,
                     parse |-> JsonObject(
                         [k \in {"kids"} |->
                             [e \in 1..n |-> LegacyNodes[idx[e]]]])],
                    no_json)

\* docs = list(loader.lazy_load()), the converter returning probe.output
LegacyLazyLoad ==
    /\ pc = "constructed"
    /\ probe.method = "legacy_lazy_load"
    /\ probeResult' = LegacyRecords(probe.output, self.file_paths[1],
                                    self.no_json)
    /\ pc' = "returned"
    /\ UNCHANGED <<args, self, converter, tmpdirs, locals, events, raised,
                   probe>>

SpecLegacy == InitLegacy /\ [][LegacyLazyLoad]_vars

(***************************************************************************)
(* Properties                                                              *)
(***************************************************************************)
TheFormats == {JSON_FMT, TEXT_FMT, HTML_FMT, MARKDOWN_FMT}

Constructed == pc \notin {"new", "ctor_raised"}

EventsOf(op) == SelectSeq(events, LAMBDA e : e.op = op)

ConvertCalls == EventsOf("convert")

\* the file paths given to the constructor, as a list
GivenPaths ==
    IF "str" \in DOMAIN args["file_path"]
    THEN <<args["file_path"].str>>
    ELSE args["file_path"].list

\* the records handed to the consumer for the output file of that name
YieldedDocs(name) ==
    LET ys == SelectSeq(events, LAMBDA e : e.op = "yield" /\ e.file = name)
    IN [y \in 1..Len(ys) |-> ys[y].doc]

PagesOf(docs) == [d \in 1..Len(docs) |-> docs[d].metadata.page]

Max(S) == CHOOSE x \in S : \A y \in S : x >= y

\* the text without its leading and trailing whitespace
Trim(s) ==
    LET keep == {i \in 1..Len(s) : s[i] \notin {SP, NL, "\t", "\r"}} IN
    IF keep = {} THEN <<>> ELSE SubSeq(s, Min(keep), Max(keep))

\* the positions of s where an occurrence of the page-break pattern starts:
\* newline, <<<ODL_PAGE_BREAK_, one or more digits, >>>, newline
PatternStarts(s) ==
    {i \in 1..Len(s) :
        \E j \in (i + 2)..(Len(s) - 2) :
            /\ s[i] = NL
            /\ s[i + 1] = OPEN
            /\ \A m \in (i + 2)..j : s[m] \in Digits
            /\ s[j + 1] = CLOSE
            /\ s[j + 2] = NL}

\* C1: a loader whose lower-cased format is not json, text, html or markdown
\* is constructed without error; the first pull from lazy_load raises a
\* ValueError that names the value and lists the four accepted formats, and
\* up to then no scratch directory is created and the converter is not
\* invoked (lazy_load has had no effect at all).
C1_InvalidFormatFailsFast ==
    (pc # "new" /\ CallBinds(args)
        /\ lower(Arg(args, "format")) \notin TheFormats) =>
        /\ pc \in {"constructed", "raised"}
        /\ pc = "constructed" => raised = NoException
        /\ pc = "raised" =>
              /\ raised.type = "ValueError"
              /\ raised.value = lower(Arg(args, "format"))
              /\ {raised.valid[i] : i \in 1..Len(raised.valid)} = TheFormats
        /\ events = <<>>

C1_Witness ==
    /\ pc = "raised"
    /\ raised.type = "ValueError"
    /\ raised.value = <<"x", "m", "l">>
    /\ Len(tmpdirs) = 1

\* C2: with a valid format no failure (scratch-directory creation, converter,
\* reading, parsing, splitting, deleting) reaches the caller: nothing is
\* raised, and the iteration can always go on until it is exhausted or the
\* consumer closes it.  The only exception lazy_load raises is the
\* invalid-format ValueError.
C2_OnlyInvalidFormatPropagates ==
    Constructed =>
        /\ self.format \in TheFormats =>
              /\ raised = NoException
              /\ pc # "raised"
              /\ pc \notin {"exhausted", "closed"} => ENABLED Next
        /\ pc = "raised" =>
              /\ raised.type = "ValueError"
              /\ self.format \notin TheFormats

C2_Witness ==
    /\ pc = "exhausted"
    /\ raised = NoException
    /\ \E i \in 1..Len(events) :
          /\ events[i].op = "log"
          /\ events[i].handler = "lazy_load"
          /\ events[i].error = "OSError:open"
          /\ \E j \in 1..(i - 1) : events[j].op = "yield"

\* C3: a failure while one output file is processed (read error, JSON parse
\* error, error in the grouper) is contained to that file: once the
\* iteration is exhausted, every other output file of the batch, also one
\* listed after the failing file, has had all its records emitted.
C3_FailureContainedToFile ==
    (pc = "exhausted" /\ locals.files # <<>>) =>
        \A j \in 1..Len(locals.files) :
            j # locals.i =>
                YieldedDocs(locals.files[j].name) =
                    ProcessFile(self, locals.files[j].content,
                                SourceName(locals.files[j])).docs

\* What C4 says of every state, whether or not the scratch directory
\* could be created: at most one mkdtemp and one convert; the convert call
\* is given the whole batch and the directory this iteration created, which
\* is the newest one; convert comes after mkdtemp and before every read and
\* every record.
C4_CallShape ==
    Constructed =>
        /\ Len(ConvertCalls) <= 1
        /\ Len(EventsOf("mkdtemp")) <= 1
        /\ \A i \in 1..Len(events) :
              /\ events[i].op \in {"read", "yield"} =>
                    \E j \in 1..(i - 1) : events[j].op = "convert"
              /\ events[i].op = "convert" =>
                    /\ \E j \in 1..(i - 1) :
                          /\ events[j].op = "mkdtemp"
                          /\ events[i].kwargs.output_dir = events[j].dir
                    /\ events[i].kwargs.output_dir = Len(tmpdirs)
                    /\ events[i].kwargs.input_path = GivenPaths

\* C4 as stated: every complete iteration with a valid format invokes the
\* converter exactly once, for the whole batch, with a freshly created
\* scratch directory, before any output file is read or record emitted.
C4_Original ==
    /\ C4_CallShape
    /\ (pc = "exhausted" /\ self.format \in TheFormats) =>
          Len(ConvertCalls) = 1

\* C4, amended: every complete iteration with a valid format in which the
\* scratch directory was created invokes the converter exactly once, for the
\* whole batch, with that freshly created directory, before any output file
\* is read or record emitted; when the directory cannot be created the
\* converter is not invoked.
C4_ConvertOncePerIteration ==
    /\ C4_CallShape
    /\ (pc = "exhausted" /\ self.format \in TheFormats) =>
          Len(ConvertCalls) = Len(EventsOf("mkdtemp"))

C4_Witness ==
    /\ pc = "exhausted"
    /\ Len(ConvertCalls) = 1
    /\ Len(ConvertCalls[1].kwargs.input_path) = 2
    /\ ConvertCalls[1].kwargs.output_dir = 2
    /\ Len(EventsOf("read")) = 2
    /\ Len(EventsOf("yield")) >= 3

\* C5: the converter is invoked with input_path the full ordered list of
\* the file paths, format the one-element list of the loader's format, and
\* each of the ten options equal to the value given at construction (its
\* default when not given), for every combination of options.
C5_ConvertReceivesOptions ==
    \A i \in 1..Len(events) :
        events[i].op = "convert" =>
            LET k == events[i].kwargs IN
            /\ k.input_path = GivenPaths
            /\ k.format = <<self.format>>
            /\ \A o \in OptionKeys : k[o] = Arg(args, o)

C5_Witness ==
    /\ Len(ConvertCalls) = 1
    /\ DOMAIN args = {"file_path", "format", "image_output", "password",
                       "quiet", "content_safety_off"}
    /\ Len(GivenPaths) = 2
    /\ ConvertCalls[1].kwargs.image_output = [str |-> "embedded"]
    /\ ConvertCalls[1].kwargs.image_format = None

\* the internal page-break template, as the claim spells it
TemplateText == [toks |-> <<NL, "<<<ODL_PAGE_BREAK_", "%page-number%", ">>>", NL>>]

\* the output file of a PDF with pages "a", " ", "b", in a flat format
IsGapFile(name) ==
    /\ name.stem \in DOMAIN converter.render
    /\ converter.render[name.stem] = "gap"
    /\ self.format # JSON_FMT

\* C6: with split_pages true the converter is invoked with the text,
\* markdown and html page separators all equal to the internal template,
\* whatever the format; and the splitter searches for that same template:
\* of an output file the converter wrote with it for pages "a", " ", "b",
\* the records are "a" on page 1 and "b" on page 3.
C6_SplitPagesSeparator ==
    \A i \in 1..Len(events) :
        /\ (events[i].op = "convert" /\ Arg(args, "split_pages")) =>
              /\ events[i].kwargs.text_page_separator = TemplateText
              /\ events[i].kwargs.markdown_page_separator = TemplateText
              /\ events[i].kwargs.html_page_separator = TemplateText
        /\ (events[i].op = "unlink" /\ Arg(args, "split_pages")
                /\ IsGapFile(events[i].file)) =>
              /\ PagesOf(YieldedDocs(events[i].file)) = <<1, 3>>
              /\ YieldedDocs(events[i].file)[1].page_content = <<"a">>
              /\ YieldedDocs(events[i].file)[2].page_content = <<"b">>

C6_Witness ==
    /\ Constructed
    /\ self.format = MARKDOWN_FMT
    /\ Arg(args, "split_pages")
    /\ converter.leading
    /\ \E i \in 1..Len(events) :
          /\ events[i].op = "unlink"
          /\ IsGapFile(events[i].file)
          /\ PagesOf(YieldedDocs(events[i].file)) = <<1, 3>>

\* C7: the constructor accepts markdown_page_separator, text_page_separator
\* and html_page_separator, stores each as an attribute (None when not
\* given), and with split_pages false each stored value is passed unchanged
\* to the converter.
C7_PageSeparatorArguments ==
    /\ (pc # "new" /\ "file_path" \in DOMAIN args
           /\ DOMAIN args \subseteq Signature \cup SeparatorKeys) =>
          /\ pc # "ctor_raised"
          /\ \A k \in SeparatorKeys :
                /\ k \in DOMAIN self
                /\ self[k] = IF k \in DOMAIN args THEN args[k] ELSE None
    /\ \A i \in 1..Len(events) :
          (events[i].op = "convert" /\ ~Arg(args, "split_pages")) =>
              \A k \in SeparatorKeys :
                  events[i].kwargs[k] =
                      IF k \in DOMAIN args THEN args[k] ELSE None

IsSplitCall == pc = "returned" /\ probe.method = "_split_into_pages"

IsJsonCall == pc = "returned" /\ probe.method = "_split_json_into_pages"

\* the call was given pages joined with the instantiated internal template
IsJoinedPages == IsSplitCall /\ probe.kind = "pages"

\* the records are the pages, in order, each with its own number
RoundTrip ==
    /\ Len(probeResult) = Len(probe.pages)
    /\ \A k \in 1..Len(probe.pages) :
          /\ probeResult[k].page_content = probe.pages[k]
          /\ probeResult[k].metadata.page = k

\* how many separators the join put into the string
InsertedSeparators ==
    IF probe.leading THEN Len(probe.pages) ELSE Len(probe.pages) - 1

\* C8 as stated: N >= 1 pages of non-empty content, joined with the internal
\* template instantiated with 1..N (page 1 unseparated or with its own
\* separator), are split into exactly N records, the k-th with page k's
\* content and page k.
C8_Original ==
    (IsJoinedPages /\ \A k \in 1..Len(probe.pages) : probe.pages[k] # <<>>)
        => RoundTrip

\* C8, amended: N >= 1 pages whose content is non-empty and has no leading
\* or trailing whitespace, joined with the internal template instantiated
\* with 1..N so that the joined string holds no occurrence of the page-break
\* pattern besides the inserted separators, are split into exactly N
\* records, the k-th with page k's content and page k.
C8_SplitterRoundTrip ==
    (/\ IsJoinedPages
     /\ \A k \in 1..Len(probe.pages) :
           probe.pages[k] # <<>> /\ Trim(probe.pages[k]) = probe.pages[k]
     /\ Cardinality(PatternStarts(probe.content)) = InsertedSeparators)
        => RoundTrip

C8_Witness ==
    /\ IsJoinedPages
    /\ Len(probe.pages) = 3
    /\ ~probe.leading
    /\ probe.pages[1] = <<OPEN, "7", CLOSE, NL, "a">>
    /\ probe.pages[2] = <<"b">>
    /\ Cardinality(PatternStarts(probe.content)) = 2
    /\ RoundTrip

\* C9: of a flat content with no occurrence of the page-break pattern,
\* _split_into_pages yields exactly one record, with page 1 and the trimmed
\* input as content, when the trimmed input is not empty, and no record
\* when it is empty.
C9_SinglePageDefault ==
    (IsSplitCall /\ PatternStarts(probe.content) = {}) =>
        IF Trim(probe.content) # <<>>
        THEN /\ Len(probeResult) = 1
             /\ probeResult[1].page_content = Trim(probe.content)
             /\ probeResult[1].metadata.page = 1
        ELSE probeResult = <<>>

C9_Witness ==
    /\ IsSplitCall
    /\ probe.kind = "raw"
    /\ PatternStarts(probe.content) = {}
    /\ probe.content = <<SP, OPEN, "1", CLOSE, NL>>
    /\ Len(probeResult) = 1
    /\ probeResult[1].page_content = <<OPEN, "1", CLOSE>>

\* the element or one of its descendants holds a character that is not
\* whitespace
RECURSIVE HasText(_)
HasText(el) ==
    \/ "content" \in DOMAIN el /\ Trim(el["content"]) # <<>>
    \/ \E key \in {"kids", "rows", "cells", "list items"} :
          /\ key \in DOMAIN el
          /\ \E c \in 1..Len(el[key]) : HasText(el[key][c])

\* the numbers of the pages with text, of a joined string
TextPages == {k \in 1..Len(probe.pages) : Trim(probe.pages[k]) # <<>>}

\* the numbers of the pages with text, of a JSON tree
JsonTextPages ==
    LET kids == TopLevelKids(probe.data) IN
    {PageNumberOf(kids[e]) : e \in {x \in 1..Len(kids) : HasText(kids[x])}}

StrictlyIncreasing(ns) == \A x, y \in 1..Len(ns) : x < y => ns[x] < ns[y]

\* C10: neither _split_into_pages nor _split_json_into_pages emits a record
\* whose content is empty or only whitespace, and the pages that are emitted
\* keep their own numbers: the numbers of the records are, in order, exactly
\* those of the pages that have text.
C10_EmptyPagesSuppressed ==
    /\ IsSplitCall =>
          /\ \A d \in 1..Len(probeResult) :
                Trim(probeResult[d].page_content) # <<>>
          /\ (/\ probe.kind = "pages"
              /\ Cardinality(PatternStarts(probe.content))
                    = InsertedSeparators) =>
                /\ {PagesOf(probeResult)[d] : d \in 1..Len(probeResult)}
                      = TextPages
                /\ StrictlyIncreasing(PagesOf(probeResult))
                /\ \A d \in 1..Len(probeResult) :
                      probeResult[d].page_content
                          = Trim(probe.pages[probeResult[d].metadata.page])
    /\ IsJsonCall =>
          /\ \A d \in 1..Len(probeResult) :
                Trim(probeResult[d].page_content) # <<>>
          /\ {PagesOf(probeResult)[d] : d \in 1..Len(probeResult)}
                = JsonTextPages
          /\ StrictlyIncreasing(PagesOf(probeResult))

C10_Witness ==
    /\ IsJoinedPages
    /\ Len(probe.pages) = 3
    /\ probe.pages[2] = <<SP>>
    /\ PagesOf(probeResult) = <<1, 3>>

\* the same for the page-grouper: the only element of page 2 has no text
C10_WitnessGrouper ==
    /\ IsJsonCall
    /\ Len(TopLevelKids(probe.data)) = 3
    /\ \E e \in 1..3 :
          /\ PageNumberOf(TopLevelKids(probe.data)[e]) = 2
          /\ ~HasText(TopLevelKids(probe.data)[e])
    /\ PagesOf(probeResult) = <<1, 3>>

\* the output file of that name among the files the loop goes through
FileNamed(name) ==
    CHOOSE f \in {locals.files[j] : j \in 1..Len(locals.files)} :
        f.name = name

\* the records of the current file not yet handed to the consumer
RecordsPending == IF pc = "emit" THEN Len(locals.pending) ELSE 0

\* C11: with split_pages false every output file read gives exactly one
\* record; its content is the text of the file as read (not trimmed, not
\* parsed, also when it is empty) and its metadata holds source and format
\* and no page; the records emitted and still to emit are as many as the
\* files read.
C11_WholeFileRecord ==
    (Constructed /\ ~Arg(args, "split_pages")) =>
        /\ Len(EventsOf("yield")) + RecordsPending = Len(EventsOf("read"))
        /\ \A i \in 1..Len(events) :
              events[i].op = "unlink" =>
                 LET docs == YieldedDocs(events[i].file) IN
                 /\ Len(docs) = 1
                 /\ docs[1].page_content
                       = FileNamed(events[i].file).content.text
                 /\ DOMAIN docs[1].metadata = {"source", "format"}

C11_Witness ==
    /\ pc = "exhausted"
    /\ Constructed
    /\ ~Arg(args, "split_pages")
    /\ Len(EventsOf("read")) = 2
    /\ Len(EventsOf("yield")) = 2
    /\ YieldedDocs([stem |-> "a", ext |-> "txt"])
          = <<FileDocument(<<>>, PathA, TEXT_FMT)>>
    /\ YieldedDocs([stem |-> "b", ext |-> "txt"])[1].page_content
          = <<"a", NL, SP, NL, "b">>

IsNumberedCall == IsSplitCall /\ probe.kind = "numbered"

\* the segments that have text, in the order they stand in the input
SegmentsWithText ==
    SelectSeq([k \in 1..Len(probe.pages) |-> k],
              LAMBDA k : Trim(probe.pages[k]) # <<>>)

\* the records of the text before the first separator
HeadRecords == IF IsNumberedCall /\ Trim(probe.head) # <<>> THEN 1 ELSE 0

\* C12: the splitter emits the records in the order of their segments in
\* the input and gives each the number its separator carries: after the
\* record of the text before the first separator (page 1), the j-th record
\* is the j-th segment with text, with the value of that segment's number,
\* whatever the order of the numbers.
C12_SplitterKeepsInputOrder ==
    IsNumberedCall =>
        /\ Len(probeResult) = HeadRecords + Len(SegmentsWithText)
        /\ HeadRecords = 1 =>
              /\ probeResult[1].page_content = Trim(probe.head)
              /\ probeResult[1].metadata.page = 1
        /\ \A j \in 1..Len(SegmentsWithText) :
              LET k == SegmentsWithText[j]
                  doc == probeResult[HeadRecords + j]
              IN /\ doc.page_content = Trim(probe.pages[k])
                 /\ doc.metadata.page = probe.nums[k].value

C12_Witness ==
    /\ IsNumberedCall
    /\ HeadRecords = 0
    /\ PagesOf(probeResult) = <<3, 1, 7>>
    /\ probe.nums[3].text = <<"0", "7">>

\* the page a top-level node names: its "page number" field, 1 without it
OwnPage(el) == IF "page number" \in DOMAIN el THEN el["page number"] ELSE 1

\* the texts of the top-level nodes e, e + 1, ... that name page p and have
\* a text, first sibling first
RECURSIVE SiblingTexts(_, _, _)
SiblingTexts(kids, p, e) ==
    IF e > Len(kids) THEN <<>>
    ELSE (IF OwnPage(kids[e]) = p
             /\ extract_text_from_element(kids[e]) # <<>>
          THEN <<extract_text_from_element(kids[e])>>
          ELSE <<>>)
         \o SiblingTexts(kids, p, e + 1)

\* texts joined by single newlines
RECURSIVE Lines(_)
Lines(texts) ==
    IF texts = <<>> THEN <<>>
    ELSE IF Len(texts) = 1 THEN texts[1]
    ELSE texts[1] \o <<NL>> \o Lines(Tail(texts))

\* C13: the page-grouper emits its records in strictly ascending order of
\* page number (so at most one record per page number), whatever the order
\* of the top-level nodes; the content of a page's record is the texts of
\* the top-level nodes of that page in their sibling order.
C13_GrouperOrder ==
    IsJsonCall =>
        /\ \A x, y \in 1..Len(probeResult) :
              x < y => probeResult[x].metadata.page
                          < probeResult[y].metadata.page
        /\ \A d \in 1..Len(probeResult) :
              probeResult[d].page_content
                 = Lines(SiblingTexts(TopLevelKids(probe.data),
                                      probeResult[d].metadata.page, 1))

C13_Witness ==
    /\ IsJsonCall
    /\ Len(TopLevelKids(probe.data)) = 3
    /\ OwnPage(TopLevelKids(probe.data)[1]) = 3
    /\ "page number" \notin DOMAIN TopLevelKids(probe.data)[2]
    /\ PagesOf(probeResult) = <<1, 3>>
    /\ probeResult[1].page_content = <<"h", NL, "a">>

\* text t stands in text s as one piece
IsInfix(t, s) ==
    \E i \in 0..(Len(s) - Len(t)) : SubSeq(s, i + 1, i + Len(t)) = t

RECURSIVE TotalLen(_)
TotalLen(texts) ==
    IF texts = <<>> THEN 0 ELSE Len(texts[1]) + TotalLen(Tail(texts))

\* the records that carry page number p
RecordsOfPage(p) ==
    {d \in 1..Len(probeResult) : probeResult[d].metadata.page = p}

\* page p has a top-level node with a character that is not whitespace
PageHasText(p) ==
    \E e \in 1..Len(TopLevelKids(probe.data)) :
        /\ OwnPage(TopLevelKids(probe.data)[e]) = p
        /\ HasText(TopLevelKids(probe.data)[e])

\* Every record is made of the texts of the top-level nodes that name its
\* page, each taken once, and of the newlines between them; and every
\* top-level node among Nodes has its text in exactly one record, that of
\* the page it names.
Complete(Nodes) ==
    LET kids == TopLevelKids(probe.data) IN
    /\ \A e \in Nodes :
          /\ Cardinality(RecordsOfPage(OwnPage(kids[e]))) = 1
          /\ \A d \in RecordsOfPage(OwnPage(kids[e])) :
                IsInfix(extract_text_from_element(kids[e]),
                        probeResult[d].page_content)
    /\ \A d \in 1..Len(probeResult) :
          LET texts == SiblingTexts(kids, probeResult[d].metadata.page, 1)
          IN /\ texts # <<>>
             /\ Len(probeResult[d].page_content)
                   = TotalLen(texts) + Len(texts) - 1

\* the top-level nodes whose extracted text is not empty
NodesWithText ==
    {e \in 1..Len(TopLevelKids(probe.data)) :
        extract_text_from_element(TopLevelKids(probe.data)[e]) # <<>>}

\* C14 as stated: every top-level node whose extracted text is not empty
\* contributes it exactly once, to the record of the page it names (page 1
\* without the field); nothing is dropped or duplicated.
C14_Original == IsJsonCall => Complete(NodesWithText)

\* C14, amended: every top-level node whose extracted text is not empty and
\* whose page holds some text that is not whitespace contributes its text
\* exactly once, to the record of the page it names (page 1 without the
\* field); nothing is duplicated, and only the text of a page that holds
\* nothing but whitespace is dropped.
C14_GroupingComplete ==
    IsJsonCall =>
        Complete({e \in NodesWithText :
                     PageHasText(OwnPage(TopLevelKids(probe.data)[e]))})

C14_Witness ==
    /\ IsJsonCall
    /\ Len(TopLevelKids(probe.data)) = 3
    /\ TopLevelKids(probe.data)[1] = Paragraph(2, <<SP>>)
    /\ TopLevelKids(probe.data)[2] = Paragraph(2, <<"b">>)
    /\ "page number" \notin DOMAIN TopLevelKids(probe.data)[3]
    /\ PagesOf(probeResult) = <<1, 2>>
    /\ probeResult[2].page_content = <<SP, NL, "b">>

\* the non-empty content strings of a node and of all the nodes nested in
\* it under whichever field, at any depth: the node first, then the nested
\* nodes in their order
RECURSIVE ContentsBelow(_)
RECURSIVE ContentsOfAll(_)
ContentsOfAll(nodes) ==
    IF nodes = <<>> THEN <<>>
    ELSE ContentsBelow(nodes[1]) \o ContentsOfAll(Tail(nodes))

ContentsBelow(el) ==
    LET under(key) == IF key \in DOMAIN el THEN el[key] ELSE <<>> IN
    (IF "content" \in DOMAIN el /\ el["content"] # <<>>
     THEN <<el["content"]>> ELSE <<>>)
    \o ContentsOfAll(under("kids") \o under("rows") \o under("cells")
                         \o under("list items"))

\* a table of one row with two cells, each holding one content string
IsTwoCellTable(el) ==
    /\ "rows" \in DOMAIN el
    /\ Len(el["rows"]) = 1
    /\ "cells" \in DOMAIN el["rows"][1]
    /\ Len(el["rows"][1]["cells"]) = 2
    /\ ContentsBelow(el) = << <<"c", "1">>, <<"c", "2">> >>

\* C15: the text of a record is the content strings of the page's top-level
\* nodes and of every node nested in them under kids, rows, cells or list
\* items, at any depth, each node before the nodes nested in it, empty
\* strings left out, joined by newlines; a table with two cells holding
\* "c1" and "c2" gives a page text that contains "c1", newline, "c2".
C15_NestedExtraction ==
    IsJsonCall =>
        LET kids == TopLevelKids(probe.data) IN
        /\ \A d \in 1..Len(probeResult) :
              probeResult[d].page_content
                 = Lines(ContentsOfAll(
                      SelectSeq(kids, LAMBDA el :
                          OwnPage(el) = probeResult[d].metadata.page)))
        /\ \A e \in 1..Len(kids) :
              IsTwoCellTable(kids[e]) =>
                 \E d \in RecordsOfPage(OwnPage(kids[e])) :
                     IsInfix(<<"c", "1", NL, "c", "2">>,
                             probeResult[d].page_content)

C15_Witness ==
    /\ IsJsonCall
    /\ Len(TopLevelKids(probe.data)) = 3
    /\ IsTwoCellTable(TopLevelKids(probe.data)[1])
    /\ PagesOf(probeResult) = <<1, 2, 3>>
    /\ probeResult[1].page_content = <<"c", "1", NL, "c", "2">>
    /\ probeResult[2].page_content = <<"i", NL, "j">>
    /\ probeResult[3].page_content = <<"s", NL, "n">>

\* C16: every record that carries a page carries a page of at least 1, for
\* every text given to the splitter (also one whose separator carries 0)
\* and every tree given to the page-grouper (also one whose node names
\* page 0 or a negative page).
C16_PageAtLeastOne ==
    (IsSplitCall \/ IsJsonCall) =>
        \A d \in 1..Len(probeResult) :
            "page" \in DOMAIN probeResult[d].metadata =>
                probeResult[d].metadata.page >= 1

IsLegacyCall == pc = "returned" /\ probe.method = "legacy_lazy_load"

\* the output was parsed and walked as a tree
IsTreeWalk ==
    /\ IsLegacyCall
    /\ ~self.no_json
    /\ probe.output.parse.ok
    /\ probe.output.parse.isdict

\* the places of the nodes below a list of siblings: <<i>> is the i-th
\* sibling, <<i, j>> its j-th child, and so on
RECURSIVE PathsUnder(_, _)
PathsUnder(nodes, prefix) ==
    UNION { {Append(prefix, i)}
            \cup (IF "kids" \in DOMAIN nodes[i]
                  THEN PathsUnder(nodes[i]["kids"], Append(prefix, i))
                  ELSE {})
            : i \in 1..Len(nodes) }

RECURSIVE NodeAt(_, _)
NodeAt(nodes, path) ==
    IF Len(path) = 1 THEN nodes[path[1]]
    ELSE NodeAt(nodes[path[1]]["kids"], Tail(path))

\* pre-order: a node stands before the nodes below it, and before all that
\* stands at or below a later sibling
Before(p, q) ==
    \/ Len(p) < Len(q) /\ SubSeq(q, 1, Len(p)) = p
    \/ \E i \in 1..Len(p) :
          /\ i <= Len(q)
          /\ SubSeq(p, 1, i - 1) = SubSeq(q, 1, i - 1)
          /\ p[i] < q[i]

\* the places of the nodes that have content
ContentPaths ==
    LET kids == TopLevelKids(probe.output.parse.value) IN
    {p \in PathsUnder(kids, <<>>) :
        /\ "content" \in DOMAIN NodeAt(kids, p)
        /\ NodeAt(kids, p)["content"] # <<>>}

C19_SourceAndFormat ==
    \A i \in 1..Len(events) :
        events[i].op = "yield" =>
            /\ events[i].doc.metadata.source
                  = [stem |-> events[i].file.stem, ext |-> "pdf"]
            /\ events[i].doc.metadata.format = lower(Arg(args, "format"))
            /\ \A j \in 1..Len(events) :
                  (events[j].op = "yield" /\ events[j].file = events[i].file)
                     => events[j].doc.metadata.source
                           = events[i].doc.metadata.source

C19_Witness ==
    /\ Constructed
    /\ Arg(args, "format") = <<"J", "S", "O", "N">>
    /\ Arg(args, "split_pages")
    /\ Len(YieldedDocs([stem |-> "b", ext |-> "json"])) = 2
    /\ \A d \in 1..2 :
          /\ YieldedDocs([stem |-> "b", ext |-> "json"])[d].metadata.source
                = PathB
          /\ YieldedDocs([stem |-> "b", ext |-> "json"])[d].metadata.format
                = JSON_FMT

\* the extension of the output files of each format
ExtensionOf(fmt) ==
    CASE fmt = JSON_FMT -> "json"
      [] fmt = TEXT_FMT -> "txt"
      [] fmt = HTML_FMT -> "html"
      [] fmt = MARKDOWN_FMT -> "md"

\* f spells fmt, letter by letter, in whatever case
SpellsFormat(f, fmt) ==
    /\ Len(f) = Len(fmt)
    /\ \A i \in 1..Len(f) :
          \/ f[i] = fmt[i]
          \/ \E l \in 1..Len(LowerLetters) :
                fmt[i] = LowerLetters[l] /\ f[i] = UpperLetters[l]

\* C20: the format is case-insensitive and text by default: the loader
\* stores the value in lower case, so a loader given any spelling of json,
\* text, html or markdown passes the validation and reads the files of the
\* extension of that format (json, txt, html, md), and no other file of
\* the scratch directory.
C20_FormatCaseInsensitive ==
    \A fmt \in TheFormats :
        (Constructed
            /\ SpellsFormat(IF "format" \in DOMAIN args THEN args["format"]
                            ELSE TEXT_FMT, fmt)) =>
            /\ self.format = fmt
            /\ pc # "raised"
            /\ raised = NoException
            /\ \A i \in 1..Len(events) :
                  /\ events[i].op = "log" =>
                        events[i].error # "UnboundLocalError"
                  /\ events[i].op = "read" =>
                        events[i].file.ext = ExtensionOf(fmt)
            /\ (pc \in {"loop", "emit", "suspended", "exhausted", "closed"}
                  /\ EventsOf("log") = <<>>)
                  => /\ locals.ext = ExtensionOf(fmt)
                     /\ {locals.files[j].name : j \in 1..Len(locals.files)}
                          = {f.name : f \in
                               {g \in tmpdirs[locals.output_dir]
                                      \cup {locals.files[j] :
                                              j \in 1..Len(locals.files)} :
                                   g.name.ext = ExtensionOf(fmt)}}

C20_Witness ==
    /\ pc = "exhausted"
    /\ "format" \in DOMAIN args
    /\ args["format"] = <<"M", "a", "r", "K", "d", "o", "w", "N">>
    /\ self.format = MARKDOWN_FMT
    /\ Len(EventsOf("read")) = 1
    /\ \E f \in tmpdirs[locals.output_dir] : f.name.ext = "png"
    /\ EventsOf("read")[1].file = [stem |-> "a", ext |-> "md"]
    /\ Len(EventsOf("yield")) = 2

\* all the records the output file of that name gives
RecordsOfFile(name) ==
    ProcessFile(self, FileNamed(name).content,
                SourceName(FileNamed(name))).docs

\* the places in the history where a record of that file was handed over
YieldsOf(name) ==
    {i \in 1..Len(events) : events[i].op = "yield" /\ events[i].file = name}

\* C21: the output files are processed one at a time: the records of one
\* file are handed over one after the other with no read and no record of
\* another file in between, and when a file is read every record of every
\* file read before it has been handed over.
C21_OneFileAtATime ==
    \A i, j \in 1..Len(events) :
        /\ (i < j /\ events[i].op = "yield"
                /\ events[j].op \in {"read", "yield"}
                /\ events[j].file # events[i].file) =>
              \A k \in YieldsOf(events[i].file) : k < j
        /\ (i < j /\ events[i].op = "read" /\ events[j].op = "read") =>
              /\ events[i].file # events[j].file
              /\ Cardinality({k \in YieldsOf(events[i].file) : k < j})
                    = Len(RecordsOfFile(events[i].file))

C21_Witness ==
    /\ pc = "exhausted"
    /\ Len(EventsOf("read")) = 2
    /\ Len(EventsOf("yield")) = 4
    /\ \E j \in 1..Len(events) :
          /\ events[j].op = "read"
          /\ Cardinality({k \in 1..Len(events) :
                             events[k].op = "yield" /\ k < j}) = 2
          /\ Cardinality({k \in 1..Len(events) :
                             events[k].op = "yield" /\ k > j}) = 2

\* the places in the history where that file was read / its deletion tried
ReadsOf(name) ==
    {i \in 1..Len(events) : events[i].op = "read" /\ events[i].file = name}

UnlinksOf(name) ==
    {i \in 1..Len(events) : events[i].op = "unlink" /\ events[i].file = name}

\* the names of the files read so far
FilesRead == {events[i].file : i \in {j \in 1..Len(events) :
                                         events[j].op = "read"}}

\* the file was read and split without error
ProcessedWithoutError(name) ==
    ProcessFile(self, FileNamed(name).content,
                SourceName(FileNamed(name))).error = NoError

\* no exception has come to the except clause around the body of lazy_load
NoCaughtFailure ==
    \A i \in 1..Len(events) :
        events[i].op = "log" => events[i].handler # "lazy_load"

\* the generator has ended
Ended == pc \in {"exhausted", "closed"}

\* What C22 says of the order of a deletion: it is tried at most once per
\* file, after the file was read and all its records handed over, and
\* before any other file is read; and a file is read only when the deletion
\* of every file read before it has been tried.
C22_DeletionOrder ==
    /\ \A name \in FilesRead : Cardinality(UnlinksOf(name)) <= 1
    /\ \A u \in 1..Len(events) :
          events[u].op = "unlink" =>
             /\ \E r \in ReadsOf(events[u].file) : r < u
             /\ Cardinality({k \in YieldsOf(events[u].file) : k < u})
                   = Len(RecordsOfFile(events[u].file))
             /\ YieldsOf(events[u].file) \subseteq 1..u
    /\ \A i, j \in 1..Len(events) :
          (i < j /\ events[i].op = "read" /\ events[j].op = "read") =>
             \E u \in UnlinksOf(events[i].file) : i < u /\ u < j

\* C22 as stated: once the iteration has ended, the deletion of every file
\* that was processed without error and whose records have all been handed
\* to the consumer has been tried exactly once, in that order.
C22_Original ==
    /\ C22_DeletionOrder
    /\ Ended =>
          \A name \in FilesRead :
              (ProcessedWithoutError(name)
                  /\ Cardinality(YieldsOf(name)) = Len(RecordsOfFile(name)))
                 => Cardinality(UnlinksOf(name)) = 1

\* the last place in the history where the file was read or gave a record
LastUseOf(name) == Max(ReadsOf(name) \cup YieldsOf(name))

\* C22, amended: the deletion of every file that was processed without
\* error and past whose last record the consumer has pulled is tried
\* exactly once: after the file was read and all its records handed over,
\* as the first thing after the last record, and before the next file is
\* read; so when the iteration is exhausted without error the deletion of
\* every file read has been tried.  A consumer that stops right after the
\* last record of a file leaves that file undeleted.
C22_CleanupOrdering ==
    /\ C22_DeletionOrder
    /\ \A name \in FilesRead :
          (ProcessedWithoutError(name) /\ LastUseOf(name) < Len(events)) =>
              /\ events[LastUseOf(name) + 1].op = "unlink"
              /\ events[LastUseOf(name) + 1].file = name
              /\ Cardinality(YieldsOf(name)) = Len(RecordsOfFile(name))
    /\ (pc = "exhausted" /\ NoCaughtFailure) =>
          \A name \in FilesRead : Cardinality(UnlinksOf(name)) = 1

C22_Witness ==
    /\ pc = "exhausted"
    /\ EventsOf("log") = <<>>
    /\ Len(EventsOf("read")) = 2
    /\ Len(EventsOf("unlink")) = 2
    /\ Len(EventsOf("yield")) = 4
    /\ events[Len(events)].op = "unlink"

\* the places in the history where a deletion failed
FailedUnlinks ==
    {u \in 1..Len(events) : events[u].op = "unlink" /\ ~events[u].ok}

\* the names of the files the loop goes through
FilesListed == {locals.files[j].name : j \in 1..Len(locals.files)}

\* C23: a deletion that fails is logged where it happens and nothing is
\* raised; the records of the file have all been handed over; and the
\* iteration goes on: it ends there only when the file was the last one, and
\* when it is exhausted with no failure caught around the loop, the records
\* of every file, also of those after the failing deletion, have all been
\* handed over.
C23_DeletionFailureNotFatal ==
    /\ \A u \in FailedUnlinks :
          /\ u < Len(events)
          /\ events[u + 1].op = "log"
          /\ events[u + 1].handler = "unlink"
          /\ raised = NoException
          /\ pc # "raised"
          /\ Cardinality(YieldsOf(events[u].file))
                = Len(RecordsOfFile(events[u].file))
          /\ u + 1 = Len(events) =>
                \/ pc = "loop"
                \/ /\ pc = "exhausted"
                   /\ locals.files[Len(locals.files)].name = events[u].file
    /\ (pc = "exhausted" /\ NoCaughtFailure /\ FailedUnlinks # {}) =>
          \A name \in FilesListed :
              Cardinality(YieldsOf(name)) = Len(RecordsOfFile(name))

C23_Witness ==
    /\ pc = "exhausted"
    /\ NoCaughtFailure
    /\ Len(locals.files) = 2
    /\ \E u \in FailedUnlinks : events[u].file = locals.files[1].name
    /\ Cardinality(YieldsOf(locals.files[1].name)) = 2
    /\ Cardinality(YieldsOf(locals.files[2].name)) = 2

\* C24: when the consumer stops, no deletion is tried for the file whose
\* records it was taking nor for any file after it, and these files are
\* still in the scratch directory; the deletion of a file is tried only
\* when all its records have been handed over and the generator has been
\* resumed after the last of them.
C24_NoDeletionAfterEarlyStop ==
    /\ pc = "closed" =>
          \A j \in locals.i..Len(locals.files) :
              /\ UnlinksOf(locals.files[j].name) = {}
              /\ locals.files[j] \in tmpdirs[locals.output_dir]
    /\ \A u \in 1..Len(events) :
          events[u].op = "unlink" =>
             /\ pc # "suspended" \/ u < Len(events)
             /\ \A k \in 1..Len(RecordsOfFile(events[u].file)) :
                   \E y \in YieldsOf(events[u].file) :
                       /\ y < u
                       /\ events[y].doc = RecordsOfFile(events[u].file)[k]

C24_Witness ==
    /\ pc = "closed"
    /\ locals.i = 1
    /\ Len(locals.files) = 2
    /\ locals.pending # <<>>
    /\ Len(EventsOf("yield")) = 1
    /\ EventsOf("unlink") = <<>>
    /\ Cardinality(tmpdirs[locals.output_dir]) = 3

\* the iteration is over: exhausted, stopped by the consumer, or ended by
\* the ValueError of the format check
IterationOver == pc \in {"exhausted", "closed", "raised"}

\* the files the converter wrote that are not of the selected extension or
\* were never read
Untouched ==
    {f \in ConverterOutput(converter, ConvertCalls[1].kwargs) :
        \/ f.name.ext # ExtensionOf(self.format)
        \/ ReadsOf(f.name) = {}}

\* the scratch directory of this iteration is there, it is a new one and
\* the older ones are as they were, and it holds the files not touched
ScratchDirKept ==
    \A m \in 1..Len(events) :
        events[m].op = "mkdtemp" =>
            /\ events[m].dir <= Len(tmpdirs)
            /\ \A k \in 1..(events[m].dir - 1) : tmpdirs[k] = LeftoverDir
            /\ (ConvertCalls # <<>> /\ ~converter.raises) =>
                   Untouched \subseteq tmpdirs[events[m].dir]

\* C25 as stated: every iteration (of a loader with a valid format) creates
\* one new scratch directory, and when the iteration is over that directory
\* is still there with every file that was not of the selected extension or
\* was not reached.
C25_Original ==
    /\ Len(EventsOf("mkdtemp")) <= 1
    /\ ScratchDirKept
    /\ Ended => Len(EventsOf("mkdtemp")) = 1

\* C25, amended: every iteration that passes the format check and whose
\* mkdtemp call succeeds creates exactly one new scratch directory (an
\* iteration ended by the ValueError or by a failing mkdtemp creates none);
\* lazy_load never removes it: when the iteration is over the directory is
\* still there with every file that was not of the selected extension or
\* was not reached.
C25_ScratchDirectoryKept ==
    /\ Len(EventsOf("mkdtemp")) <= 1
    /\ ScratchDirKept
    /\ IterationOver =>
          Len(EventsOf("mkdtemp"))
             = IF pc = "raised"
                  \/ \E i \in 1..Len(events) :
                        /\ events[i].op = "log"
                        /\ events[i].error = "OSError:mkdtemp"
               THEN 0 ELSE 1

C25_Witness ==
    /\ pc = "exhausted"
    /\ Len(tmpdirs) = 2
    /\ Len(EventsOf("mkdtemp")) = 1
    /\ Len(locals.files) = 2
    /\ Len(EventsOf("read")) = 1
    /\ Len(EventsOf("unlink")) = 1
    /\ EventsOf("unlink")[1].ok
    /\ Cardinality(tmpdirs[2]) = 2
    /\ StrayFile \in tmpdirs[2]

\* the page numbers named by the nodes nested in a node, at any depth
RECURSIVE PagesBelow(_)
PagesBelow(el) ==
    LET under(key) == IF key \in DOMAIN el THEN el[key] ELSE <<>>
        nested == under("kids") \o under("rows") \o under("cells")
                     \o under("list items")
    IN UNION {(IF "page number" \in DOMAIN nested[c]
               THEN {nested[c]["page number"]} ELSE {})
              \cup PagesBelow(nested[c]) : c \in 1..Len(nested)}

\* the pages the top-level nodes name
TopLevelPages ==
    {OwnPage(TopLevelKids(probe.data)[e]) :
        e \in 1..Len(TopLevelKids(probe.data))}

\* C26: in the page-grouper only the page number of the top-level nodes
\* decides the grouping: every record is of a page some top-level node
\* names, none is made for a page only nested nodes name, and every content
\* string of a top-level node and of the nodes nested in it stands in the
\* record of the page the top-level node names, whatever page the nested
\* node names itself.
C26_TopLevelPageDecides ==
    IsJsonCall =>
        LET kids == TopLevelKids(probe.data) IN
        /\ \A d \in 1..Len(probeResult) :
              probeResult[d].metadata.page \in TopLevelPages
        /\ \A e \in 1..Len(kids) :
              /\ \A p \in PagesBelow(kids[e]) \ TopLevelPages :
                    RecordsOfPage(p) = {}
              /\ PageHasText(OwnPage(kids[e])) =>
                    \A c \in 1..Len(ContentsBelow(kids[e])) :
                        \E d \in RecordsOfPage(OwnPage(kids[e])) :
                            IsInfix(ContentsBelow(kids[e])[c],
                                    probeResult[d].page_content)

C26_Witness ==
    /\ IsJsonCall
    /\ Len(TopLevelKids(probe.data)) = 2
    /\ PagesBelow(TopLevelKids(probe.data)[1]) = {5}
    /\ PagesBelow(TopLevelKids(probe.data)[2]) = {1}
    /\ PagesOf(probeResult) = <<2, 3>>
    /\ probeResult[1].page_content = <<"k">>
    /\ probeResult[2].page_content = <<"s", NL, "n">>

\* C27: whatever the text, every record of _split_into_pages has a content
\* that is not empty, neither starts nor ends with whitespace and holds no
\* complete occurrence of the page-break pattern; and there are at most as
\* many records as occurrences of the pattern in the text, plus one.
C27_SplitterRecordsClean ==
    IsSplitCall =>
        /\ \A d \in 1..Len(probeResult) :
              LET content == probeResult[d].page_content IN
              /\ content # <<>>
              /\ content[1] \notin {SP, NL, "\t", "\r"}
              /\ content[Len(content)] \notin {SP, NL, "\t", "\r"}
              /\ PatternStarts(content) = {}
        /\ Len(probeResult) <= Cardinality(PatternStarts(probe.content)) + 1

C27_Witness ==
    /\ IsSplitCall
    /\ probe.kind = "pages"
    /\ Cardinality(PatternStarts(probe.content)) = 3
    /\ Len(probeResult) = 2
    /\ probeResult[1].page_content = <<"a">>
    /\ probeResult[2].page_content = <<OPEN, "7", CLOSE, NL, "a">>

====
